---- MODULE Spec2Model ----
(***************************************************************************)
(* Model of the temporal feature/target pipeline of traffic_forecast:      *)
(* features.py (calendar, lag, rolling features and horizon targets),      *)
(* model.py (time-ordered split, per-horizon training and artifacts),      *)
(* inference.py (single-row feature assembly) and the training script.     *)
(*                                                                         *)
(* A pandas DataFrame is a record [columns, rows]: the ordered list of     *)
(* column names and the sequence of rows, each row a function from column  *)
(* name to cell.  Numeric cells are rationals <<num, den>> with den >= 1,  *)
(* and NaN is <<0, 0>>.  Timestamps are whole minutes counted from a       *)
(* Monday 00:00 UTC.  point_id is a small number standing for the id       *)
(* string, numbered in the lexicographic order of the strings.             *)
(***************************************************************************)
EXTENDS Integers, Sequences, FiniteSets, TLC

VARIABLES
    df,                 \* the observation table
    tick_minutes,       \* minutes between two collector ticks
    num_points,         \* number of monitored points
    interval_minutes,   \* the interval handed to make_feature_frame
    drop_na,            \* FeatureConfig.drop_na
    fdf,                \* the frame make_feature_frame returned
    feature_cols,       \* the feature-column list of the training run
    train_df, test_df,  \* the partitions of time_split
    hidx,               \* position of train_models in cfg.horizons_min
    fits,               \* what each fit call was given
    scores,             \* what each scoring was given
    results,            \* the entries of the metrics train_models returns
    files,              \* the artifacts under models/
    loaded,             \* the LoadedModel of the last predict_for_point
    X,                  \* the feature row of the last predict_for_point
    latest,             \* the point requested of latest_features_for_point and the row it selected
    err,                \* the exception raised, or "none"
    points_file,        \* data/metadata/points.csv
    dft_queries,        \* calls of fetch_count_points_in_bbox so far
    ensure_call,        \* the number of ensure_points_csv calls and the last one's arguments
    raw_tomtom,         \* the files under data/raw/tomtom, in sorted order
    raw_tfl,            \* the files under data/raw/tfl, in sorted order
    pc

vars == <<df, tick_minutes, num_points, interval_minutes, drop_na, fdf, feature_cols,
          train_df, test_df, hidx, fits, scores, results, files, loaded, X, latest, err,
          points_file, dft_queries, ensure_call, raw_tomtom, raw_tfl, pc>>

data_vars == <<points_file, dft_queries, ensure_call, raw_tomtom, raw_tfl>>

(***************************************************************************)
(* Bounds of the model.                                                    *)
(***************************************************************************)
\* Rows of the table handed to make_feature_frame (Spec).
MaxRows == 4
\* Rows of the observation table the collector ticks fill (SpecTrain).
MaxCollected == 5
\* Collector runs, and ticks under data/raw (SpecBuild).
MaxRuns == 2
MaxTicks == 2

\* The monitored points, the ticks of an observation and the values of
\* interval_minutes a caller passes (h / interval = 1.5, 3; 1, 2; 0.5, 1).
Points == {1, 2}
Ticks == 0..3
Intervals == {10, 15, 30}

\* CollectorConfig.interval_seconds = 600: one tick every ten minutes.
TickMinutes == 10

(***************************************************************************)
(* Numeric cells.                                                          *)
(***************************************************************************)
NaN == <<0, 0>>

IsNaN(x) == x[2] = 0

Num(v) == <<v, 1>>

RECURSIVE GCD(_, _)
GCD(a, b) == IF b = 0 THEN a ELSE GCD(b, a % b)

Rat(n, d) == LET g == GCD(n, d) IN <<n \div g, d \div g>>

RatAdd(a, b) == Rat(a[1] * b[2] + b[1] * a[2], a[2] * b[2])

RatSub(a, b) == Rat(a[1] * b[2] - b[1] * a[2], a[2] * b[2])

RatMul(a, b) == Rat(a[1] * b[1], a[2] * b[2])

RatDivInt(a, n) == Rat(a[1], a[2] * n)

\* Python's round(): round half to even, of the quotient a / b (a >= 0, b > 0).
RoundHalfEven(a, b) ==
    LET q == a \div b
        r == a % b
    IN  IF 2 * r < b THEN q
        ELSE IF 2 * r > b THEN q + 1
        ELSE IF q % 2 = 0 THEN q ELSE q + 1

Max(a, b) == IF a >= b THEN a ELSE b

Min(a, b) == IF a <= b THEN a ELSE b

\* The timestamp pd.to_datetime(..., errors="coerce") gives a string it cannot
\* parse: NaT, which is no minute of the time line.
NaT == 0 - 1

IsNaT(ts) == ts = NaT

(***************************************************************************)
(* DataFrames.                                                             *)
(***************************************************************************)
EmptyFrame == [columns |-> <<>>, rows |-> <<>>]

EmptySplit == [columns |-> <<>>, rows |-> <<>>, index |-> <<>>]

NRows(f) == Len(f.rows)

\* The sequence s held as the tuple of its elements.
Tuple(s) == s \o <<>>

HasColumn(f, c) == \E j \in 1..Len(f.columns) : f.columns[j] = c

\* f[c]: the column as a sequence aligned with the rows.
Column(f, c) == [i \in 1..NRows(f) |-> f.rows[i][c]]

\* f[c] = vals: an existing column is replaced in place, a new one is appended.
SetColumn(f, c, vals) ==
    [columns |-> IF HasColumn(f, c) THEN f.columns ELSE Append(f.columns, c),
     rows |-> Tuple([i \in 1..NRows(f) |-> (c :> vals[i]) @@ f.rows[i]])]

\* The lexicographic order of two keys (tuples of numbers of one length).
LexLess(a, b) ==
    \E i \in 1..Len(a) : a[i] < b[i] /\ \A j \in 1..i - 1 : a[j] = b[j]

\* A stable sort of the rows by their keys: keys[i] is the key of rows[i].
SortedBy(rows, keys) ==
    LET n == Len(rows)
        rank(i) == 1 + Cardinality({j \in 1..n :
                        \/ LexLess(keys[j], keys[i])
                        \/ (keys[j] = keys[i] /\ j < i)})
    IN  Tuple([p \in 1..n |-> rows[CHOOSE i \in 1..n : rank(i) = p]])

\* df.sort_values([group_key, "timestamp_utc"]).reset_index(drop=True): the
\* rows of a group by timestamp, those without a timestamp (NaT) last.
GroupTimeKey(r) ==
    <<r["point_id"], IF IsNaT(r["timestamp_utc"]) THEN 1 ELSE 0, r["timestamp_utc"]>>

\* A sort by the group key alone: the rows of a group stay in arrival order.
SortGroupOnly(f) ==
    [f EXCEPT !.rows = SortedBy(f.rows, [i \in 1..NRows(f) |-> <<f.rows[i]["point_id"]>>])]

SortGroupTime(f) ==
    [f EXCEPT !.rows = SortedBy(f.rows, [i \in 1..NRows(f) |-> GroupTimeKey(f.rows[i])])]

\* A shift that forgets the group: the cell k rows earlier in the table.
PlainShift(f, col, k) ==
    [i \in 1..NRows(f) |-> IF i - k >= 1 /\ i - k <= NRows(f) THEN f.rows[i - k][col] ELSE NaN]

\* out.groupby(group_key)[col].shift(k): the cell k rows earlier within the
\* rows of the same group, NaN where the group has no such row.
GroupShift(f, col, k) ==
    LET n == NRows(f)
        same(i, j) == f.rows[j]["point_id"] = f.rows[i]["point_id"]
        pos(i) == Cardinality({j \in 1..i : same(i, j)})
        src(i) == {j \in 1..n : same(i, j) /\ pos(j) = pos(i) - k}
    IN  Tuple([i \in 1..n |-> IF src(i) = {} THEN NaN
                              ELSE f.rows[CHOOSE j \in src(i) : TRUE][col]])

(***************************************************************************)
(* features.py                                                             *)
(***************************************************************************)
FeatureCfg == [horizons_min |-> <<15, 30>>,
               lags |-> <<1, 2, 3>>,
               rolling_windows |-> <<3, 6>>]

LagName(col, k) == col \o "_lag_" \o ToString(k)

RollMeanName(col, w) == col \o "_roll_mean_" \o ToString(w)

RollStdName(col, w) == col \o "_roll_std_" \o ToString(w)

TargetName(h) == "y_" \o ToString(h)

add_time_features(f) ==
    LET ts(i) == f.rows[i]["timestamp_utc"]
        hour == [i \in 1..NRows(f) |->
                    IF IsNaT(ts(i)) THEN NaN ELSE Num((ts(i) \div 60) % 24)]
        dow == [i \in 1..NRows(f) |->
                    IF IsNaT(ts(i)) THEN NaN ELSE Num((ts(i) \div 1440) % 7)]
        wkd == [i \in 1..NRows(f) |->
                    Num(IF ~IsNaN(dow[i]) /\ dow[i][1] >= 5 THEN 1 ELSE 0)]
    IN  SetColumn(SetColumn(SetColumn(f, "hour", hour), "day_of_week", dow),
                  "is_weekend", wkd)

RECURSIVE LagLoop(_, _, _, _)
LagLoop(out, col, lags, j) ==
    IF j > Len(lags) THEN out
    ELSE LagLoop(SetColumn(out, LagName(col, lags[j]), GroupShift(out, col, lags[j])),
                 col, lags, j + 1)

\* The lags taken on the arrival order, without the sort.
add_lag_features_unsorted(f, col, lags) == LagLoop(f, col, lags, 1)

add_lag_features(f, col, lags) == LagLoop(SortGroupTime(f), col, lags, 1)

\* The non-NaN cells of s[lo..i], the window of Series.rolling(w, min_periods=1).
RECURSIVE WindowSum(_, _, _)
WindowSum(s, lo, hi) ==
    IF lo > hi THEN [n |-> 0, sum |-> Num(0), sumsq |-> Num(0)]
    ELSE LET rest == WindowSum(s, lo + 1, hi)
         IN  IF IsNaN(s[lo]) THEN rest
             ELSE [n |-> rest.n + 1,
                   sum |-> RatAdd(rest.sum, s[lo]),
                   sumsq |-> RatAdd(rest.sumsq, RatMul(s[lo], s[lo]))]

\* s.rolling(window=w, min_periods=1).mean()
RollingMean(s, w) ==
    [i \in 1..Len(s) |->
        LET a == WindowSum(s, Max(1, i - w + 1), i)
        IN  IF a.n >= 1 THEN RatDivInt(a.sum, a.n) ELSE NaN]

\* s.rolling(window=w, min_periods=1).std(): the sample standard deviation,
\* kept as its square (the variance); NaN with fewer than two cells.
RollingStd(s, w) ==
    [i \in 1..Len(s) |->
        LET a == WindowSum(s, Max(1, i - w + 1), i)
        IN  IF a.n >= 2
            THEN RatDivInt(RatSub(a.sumsq, RatDivInt(RatMul(a.sum, a.sum), a.n)), a.n - 1)
            ELSE NaN]

RECURSIVE RollLoop(_, _, _, _)
RollLoop(out, col, windows, j) ==
    IF j > Len(windows) THEN out
    ELSE LET w == windows[j]
             shifted == GroupShift(out, col, 1)
             withMean == SetColumn(out, RollMeanName(col, w), RollingMean(shifted, w))
         IN  RollLoop(SetColumn(withMean, RollStdName(col, w), RollingStd(shifted, w)),
                      col, windows, j + 1)

add_rolling_features(f, col, windows) == RollLoop(SortGroupTime(f), col, windows, 1)

\* shift_rows = int(round(h / interval_minutes))
ShiftRows(h, interval) == RoundHalfEven(h, interval)

RECURSIVE TargetLoop(_, _, _, _, _)
TargetLoop(out, col, horizons, interval, j) ==
    IF j > Len(horizons) THEN out
    ELSE LET h == horizons[j]
         IN  TargetLoop(SetColumn(out, TargetName(h),
                                  GroupShift(out, col, 0 - ShiftRows(h, interval))),
                        col, horizons, interval, j + 1)

add_targets(f, col, horizons, interval) ==
    TargetLoop(SortGroupTime(f), col, horizons, interval, 1)

\* out.dropna(): a row is dropped for a missing cell in any column.
DropNaAnyColumn(f, cols) ==
    [f EXCEPT !.rows = SelectSeq(f.rows,
        LAMBDA r : \A j \in 1..Len(f.columns) :
            f.columns[j] \in {"timestamp_utc", "point_id"} \/ ~IsNaN(r[f.columns[j]]))]

\* out.dropna(subset=cols)
DropNa(f, cols) ==
    [f EXCEPT !.rows = SelectSeq(f.rows,
        LAMBDA r : \A j \in 1..Len(cols) : ~IsNaN(r[cols[j]]))]

make_feature_frame(f, cfg, interval, dn) ==
    LET a == add_time_features(f)
        b == add_lag_features(a, "congestion_index", cfg.lags)
        c == add_rolling_features(b, "congestion_index", cfg.rolling_windows)
        d == add_targets(c, "congestion_index", cfg.horizons_min, interval)
    IN  IF dn
        THEN DropNa(d, [j \in 1..Len(cfg.horizons_min) |-> TargetName(cfg.horizons_min[j])])
        ELSE d

(***************************************************************************)
(* model.py                                                                *)
(***************************************************************************)
TrainCfg == [horizons_min |-> <<15, 30>>]

\* The row orders df.sort_values("timestamp_utc") can return: the sort is
\* numpy's quicksort, which is not stable, so rows of equal timestamp come
\* out in an order the call does not fix.
TimeSortedOrders(f) ==
    LET n == NRows(f)
    IN  {p \in [1..n -> 1..n] :
            /\ \A i, j \in 1..n : i # j => p[i] # p[j]
            /\ \A i \in 1..n - 1 :
                  f.rows[p[i]]["timestamp_utc"] <= f.rows[p[i + 1]]["timestamp_utc"]}

\* A cut that is not clamped into [1, n-1].
SplitCutUnclamped(n, tf) == RoundHalfEven(n * (10 - tf), 10)

\* cut = max(1, min(n - 1, int(round(n * (1 - test_fraction))))), with
\* test_fraction = tf / 10 and the product taken exactly.
SplitCut(n, tf) == Max(1, Min(n - 1, RoundHalfEven(n * (10 - tf), 10)))

\* df.iloc[lo:hi] of the frame sorted in the order p and re-indexed 0..n-1:
\* the rows keep their index labels.
ILoc(f, p, lo, hi) ==
    LET n == NRows(f)
        a == Min(Max(lo, 0), n)
        z == Max(a, Min(hi, n))
    IN  [columns |-> f.columns,
         rows |-> [i \in 1..z - a |-> f.rows[p[a + i]]],
         index |-> [i \in 1..z - a |-> a + i - 1]]

\* time_split(df, test_fraction): <<train, test>>.
time_split(f, tf, p) ==
    LET n == NRows(f)
        cut == SplitCut(n, tf)
    IN  <<ILoc(f, p, 0, cut), ILoc(f, p, cut, n)>>

\* df[cols]
SelectColumns(f, cols) ==
    [columns |-> cols,
     rows |-> [i \in 1..NRows(f) |->
                 [c \in {cols[j] : j \in 1..Len(cols)} |-> f.rows[i][c]]]]

persistence_predict(f) == Column(f, "congestion_index")

HasNaN(s) == \E i \in 1..Len(s) : IsNaN(s[i])

RatAbsDiff(a, b) ==
    IF a[1] * b[2] >= b[1] * a[2] THEN RatSub(a, b) ELSE RatSub(b, a)

RECURSIVE AbsErrSum(_, _, _)
AbsErrSum(y_true, y_pred, i) ==
    IF i > Len(y_true) THEN Num(0)
    ELSE RatAdd(RatAbsDiff(y_true[i], y_pred[i]), AbsErrSum(y_true, y_pred, i + 1))

\* sklearn's metrics reject an empty array and an array holding NaN.
EvaluateRaises(y_true, y_pred) == Len(y_true) = 0 \/ HasNaN(y_true) \/ HasNaN(y_pred)

\* evaluate(): the mean absolute error (the rmse is left out of the model).
evaluate(y_true, y_pred) == [mae |-> RatDivInt(AbsErrSum(y_true, y_pred, 1), Len(y_true))]

\* HistGradientBoostingRegressor.fit rejects an empty X and a y holding NaN.
FitRaises(X_train, y_train) == NRows(X_train) = 0 \/ HasNaN(y_train)

\* The rows handed to fit, were they taken from the whole table.
FitFrameAll(train, test) ==
    [columns |-> train.columns, rows |-> train.rows \o test.rows,
     index |-> train.index \o test.index]

\* The rows train_models hands to fit: train_df.
FitFrame(train, test) == train

\* The rows train_models scores on: test_df.
ScoreFrame(train, test) == test

ModelPath(h) == "models/hgb_h" \o ToString(h) \o ".joblib"

\* One pass of the loop of train_models over cfg.horizons_min, for horizon h:
\* [raises, fit, score, artifact, result].
train_horizon(train, test, cols, h) ==
    LET ycol == TargetName(h)
        ftrain == FitFrame(train, test)
        ftest == ScoreFrame(train, test)
        X_train == SelectColumns(ftrain, cols)
        X_test == SelectColumns(ftest, cols)
        y_train == Column(ftrain, ycol)
        y_test == Column(ftest, ycol)
        y_pred_base == persistence_predict(ftest)
    IN  IF EvaluateRaises(y_test, y_pred_base) \/ FitRaises(X_train, y_train)
        THEN [raises |-> TRUE]
        ELSE [raises |-> FALSE,
              fit |-> [index |-> ftrain.index, X |-> X_train, y |-> y_train],
              score |-> [index |-> ftest.index, X |-> X_test, y |-> y_test],
              artifact |-> [feature_cols |-> cols, horizon_min |-> h],
              result |-> [baseline |-> evaluate(y_test, y_pred_base),
                          model_path |-> ModelPath(h),
                          n_train |-> NRows(train),
                          n_test |-> NRows(test)]]

(***************************************************************************)
(* inference.py                                                            *)
(***************************************************************************)
\* load_model(path): LoadedModel(feature_cols, int(horizon_min)); the fitted
\* estimator is opaque and left out.
load_model(obj) == [feature_cols |-> obj.feature_cols, horizon_min |-> obj.horizon_min]

\* observations[observations["point_id"].astype(str) == str(point_id)]
RowsOfPoint(obs, p) == SelectSeq(obs.rows, LAMBDA r : r["point_id"] = p)

\* dfp.sort_values("timestamp_utc").tail(1): the rows that can come out last.
\* The sort puts the rows without a timestamp (NaT) after all others, in the
\* order they have in the table; rows of one greatest timestamp come out in
\* an order the call does not fix.
LatestRows(rows) ==
    LET nat == {i \in 1..Len(rows) : IsNaT(rows[i]["timestamp_utc"])}
    IN  IF nat # {}
        THEN {rows[CHOOSE i \in nat : \A j \in nat : j <= i]}
        ELSE {rows[i] : i \in {i \in 1..Len(rows) :
                \A j \in 1..Len(rows) : rows[j]["timestamp_utc"] <= rows[i]["timestamp_utc"]}}

\* for c in feature_cols: if c not in dfp.columns: dfp[c] = fallback
RECURSIVE FillLoop(_, _, _, _)
FillLoop(dfp, cols, fallback, j) ==
    IF j > Len(cols) THEN dfp
    ELSE FillLoop(IF HasColumn(dfp, cols[j]) THEN dfp
                  ELSE SetColumn(dfp, cols[j], [i \in 1..NRows(dfp) |-> fallback]),
                  cols, fallback, j + 1)

\* X.fillna(fallback)
FillNa(f, fallback) ==
    [f EXCEPT !.rows = [i \in 1..NRows(f) |->
        [c \in DOMAIN f.rows[i] |-> IF IsNaN(f.rows[i][c]) THEN fallback ELSE f.rows[i][c]]]]

\* The frame returned when only the columns already present are selected.
AssembleFeaturesPresentOnly(columns, r, cols) ==
    LET dfp == add_time_features([columns |-> columns, rows |-> <<r>>])
    IN  SelectColumns(dfp, SelectSeq(cols, LAMBDA c : HasColumn(dfp, c)))

\* The frame returned when the absent columns are filled with 0.0 whatever
\* the row's congestion_index is.
AssembleFeaturesZeroFill(columns, r, cols) ==
    LET dfp == add_time_features([columns |-> columns, rows |-> <<r>>])
        filled == FillLoop(dfp, cols, Num(0), 1)
    IN  FillNa(SelectColumns(filled, cols), Num(0))

\* latest_features_for_point, from the selected latest row r on.
AssembleFeatures(columns, r, cols) ==
    LET dfp == add_time_features([columns |-> columns, rows |-> <<r>>])
        fallback == IF HasColumn(dfp, "congestion_index")
                    THEN dfp.rows[1]["congestion_index"] ELSE Num(0)
        filled == FillLoop(dfp, cols, fallback, 1)
    IN  FillNa(SelectColumns(filled, cols), fallback)

(***************************************************************************)
(* data/points.py                                                          *)
(***************************************************************************)
\* The count points the DfT source lists, with whole-degree coordinates.
SourcePoints ==
    <<[point_id |-> 1, latitude |-> 51, longitude |-> 1],
      [point_id |-> 2, latitude |-> 51, longitude |-> 2]>>

\* The box Collector._ensure_points falls back to (it holds both points), a
\* box around the second point alone and a box that holds no point.
DefaultBBox == [min_lat |-> 50, max_lat |-> 52, min_lon |-> 0, max_lon |-> 3]

BBoxes == {DefaultBBox,
           [min_lat |-> 50, max_lat |-> 52, min_lon |-> 2, max_lon |-> 3],
           [min_lat |-> 50, max_lat |-> 52, min_lon |-> 5, max_lon |-> 6]}

\* CollectorConfig.num_points of a run.
TargetNs == {1, 2}

\* LondonBBox.contains
Contains(bbox, lat, lon) ==
    /\ bbox.min_lat <= lat /\ lat <= bbox.max_lat
    /\ bbox.min_lon <= lon /\ lon <= bbox.max_lon

\* df.sample(n=target_n, random_state=seed): n rows of the frame, picked and
\* ordered by a generator the model does not follow.
Samples(rows, n) ==
    {q \in [1..n -> 1..Len(rows)] : \A i, j \in 1..n : i # j => q[i] # q[j]}

\* fetch_count_points_in_bbox(dft, bbox, target_n): the frames it can return,
\* or the RuntimeError of an empty selection.  The source answers in one
\* page and lists no id twice.
fetch_count_points_in_bbox(bbox, target_n) ==
    LET rows == SelectSeq(SourcePoints, LAMBDA r : Contains(bbox, r.latitude, r.longitude))
    IN  IF Len(rows) = 0 THEN {[raises |-> TRUE, points |-> <<>>]}
        ELSE IF Len(rows) > target_n
        THEN {[raises |-> FALSE, points |-> [i \in 1..target_n |-> rows[q[i]]]] :
                 q \in Samples(rows, target_n)}
        ELSE {[raises |-> FALSE, points |-> rows]}

\* An ensure_points_csv that does not look for the file: it fetches and
\* writes on every call.
ensure_points_csv_refetch(file, queries, bbox, target_n) ==
    {[file |-> IF o.raises THEN file ELSE [exists |-> TRUE, points |-> o.points],
      queries |-> queries + 1,
      raises |-> o.raises] : o \in fetch_count_points_in_bbox(bbox, target_n)}

\* ensure_points_csv(dft, bbox, target_n, out_path): the file at out_path and
\* the number of source queries after the call.
ensure_points_csv(file, queries, bbox, target_n) ==
    IF file.exists
    THEN {[file |-> file, queries |-> queries, raises |-> FALSE]}
    ELSE {[file |-> IF o.raises THEN file ELSE [exists |-> TRUE, points |-> o.points],
           queries |-> queries + 1,
           raises |-> o.raises] : o \in fetch_count_points_in_bbox(bbox, target_n)}

(***************************************************************************)
(* data/build_dataset.py                                                   *)
(***************************************************************************)
\* A timestamp string of a raw file: one that parses to a minute, or one
\* that does not parse.
RawTs(m) == [text_ok |-> TRUE, minute |-> m]

Garbled == [text_ok |-> FALSE, minute |-> 0]

\* pd.to_datetime(x, utc=True, errors="coerce")
to_datetime(x) == IF x.text_ok THEN x.minute ELSE NaT

TflCounters == <<"tfl_disruptions_count", "tfl_severe_disruptions_count", "tfl_roads_seen">>

\* A row widened to the columns cols, NaN where it has no cell.
Pad(r, cols) ==
    [c \in {cols[j] : j \in 1..Len(cols)} |-> IF c \in DOMAIN r THEN r[c] ELSE NaN]

\* pd.concat(dfs, ignore_index=True): the union of the columns in the order
\* they first appear, the rows of the frames one after the other.
RECURSIVE Concat(_, _)
Concat(dfs, j) ==
    IF j = 0 THEN EmptyFrame
    ELSE LET a == Concat(dfs, j - 1)
             b == dfs[j]
             cols == a.columns \o SelectSeq(b.columns, LAMBDA c : ~HasColumn(a, c))
         IN  [columns |-> cols,
              rows |-> [i \in 1..NRows(a) |-> Pad(a.rows[i], cols)]
                         \o [i \in 1..NRows(b) |-> Pad(b.rows[i], cols)]]

\* _load_tomtom_parquets(root): [raises, err, table].
load_tomtom_parquets(fps) ==
    LET dfs == SelectSeq(fps, LAMBDA f : f.readable)
    IN  IF fps = <<>>
        THEN [raises |-> TRUE, err |-> "FileNotFoundError", table |-> EmptyFrame]
        ELSE IF dfs = <<>>
        THEN [raises |-> TRUE, err |-> "RuntimeError", table |-> EmptyFrame]
        ELSE [raises |-> FALSE, err |-> "none",
              table |-> Concat([j \in 1..Len(dfs) |-> dfs[j].frame], Len(dfs))]

\* _load_tfl_json(root): one row per file that json.loads reads.
load_tfl_json(fps) ==
    LET objs == SelectSeq(fps, LAMBDA f : f.readable)
    IN  [columns |-> <<"timestamp_utc">> \o TflCounters,
         rows |-> [j \in 1..Len(objs) |->
            [c \in {"timestamp_utc", "tfl_disruptions_count",
                    "tfl_severe_disruptions_count", "tfl_roads_seen"} |->
                IF c = "timestamp_utc" THEN objs[j].obj.timestamp_utc
                ELSE IF c = "tfl_disruptions_count" THEN objs[j].obj.disruptions_count
                ELSE IF c = "tfl_severe_disruptions_count"
                     THEN objs[j].obj.severe_disruptions_count
                ELSE objs[j].obj.roads_seen]]]

\* f["timestamp_utc"] = pd.to_datetime(f["timestamp_utc"], utc=True, errors="coerce")
CoerceTimestamps(f) ==
    SetColumn(f, "timestamp_utc",
              [i \in 1..NRows(f) |-> to_datetime(f.rows[i]["timestamp_utc"])])

\* The contextual cells of a merged row: those of the right row m, or empty.
WithCounters(l, m, found) ==
    [c \in {TflCounters[j] : j \in 1..Len(TflCounters)} |->
        IF found THEN m[c] ELSE NaN] @@ l

\* left.merge(right, on="timestamp_utc", how="left"): every left row, in the
\* left order, once for every right row of the same key (two missing keys are
\* the same key), and once with empty right cells when there is none.
RECURSIVE MergeLeftRows(_, _, _)
MergeLeftRows(left, right, i) ==
    IF i > Len(left) THEN <<>>
    ELSE LET l == left[i]
             m == SelectSeq(right, LAMBDA r : r["timestamp_utc"] = l["timestamp_utc"])
         IN  (IF m = <<>> THEN <<WithCounters(l, l, FALSE)>>
              ELSE [k \in 1..Len(m) |-> WithCounters(l, m[k], TRUE)])
             \o MergeLeftRows(left, right, i + 1)

\* build_dataset(data_dir, out_path): [raises, err, table], the table being
\* what is written to out_path.
build_dataset(tomtom_fps, tfl_fps) ==
    LET tt == load_tomtom_parquets(tomtom_fps)
        tfl_df == load_tfl_json(tfl_fps)
    IN  IF tt.raises THEN tt
        ELSE IF ~HasColumn(tt.table, "timestamp_utc")
        THEN [raises |-> TRUE, err |-> "KeyError", table |-> EmptyFrame]
        ELSE LET tomtom_df == CoerceTimestamps(tt.table)
                 merged ==
                     [columns |-> tomtom_df.columns \o TflCounters,
                      rows |-> IF NRows(tfl_df) > 0
                               THEN MergeLeftRows(tomtom_df.rows,
                                                  CoerceTimestamps(tfl_df).rows, 1)
                               ELSE [i \in 1..NRows(tomtom_df) |->
                                        WithCounters(tomtom_df.rows[i],
                                                     tomtom_df.rows[i], FALSE)]]
             IN  [raises |-> FALSE, err |-> "none", table |-> SortGroupTime(merged)]

(***************************************************************************)
(* scripts/train_models.py                                                 *)
(***************************************************************************)
\* The gaps between consecutive timestamps of the sorted column:
\* ts.sort_values().diff().dropna(), in minutes.
TimestampGaps(f) ==
    LET n == NRows(f)
        col == Column(f, "timestamp_utc")
        ts == SortedBy(col, [i \in 1..n |-> <<col[i]>>])
    IN  [i \in 1..Max(0, n - 1) |-> ts[i + 1] - ts[i]]

\* Twice the median of a non-empty sequence of numbers.
TwiceMedian(s) ==
    LET n == Len(s)
        o == SortedBy(s, [i \in 1..n |-> <<s[i]>>])
    IN  IF n % 2 = 1 THEN 2 * o[(n + 1) \div 2] ELSE o[n \div 2] + o[n \div 2 + 1]

DefaultInterval == 10

\* interval_minutes = int(round(diffs.median() / 60.0)) if len(diffs) else 10
\* interval_minutes = max(1, interval_minutes)
DeriveInterval(f) ==
    LET diffs == TimestampGaps(f)
    IN  Max(1, IF Len(diffs) > 0 THEN RoundHalfEven(TwiceMedian(diffs), 2)
               ELSE DefaultInterval)

TargetCols == <<"y_15", "y_30">>

DropCols == {"timestamp_utc", "point_id", "latitude", "longitude"}
                \cup {TargetCols[j] : j \in 1..Len(TargetCols)}

\* feature_cols = [c for c in fdf.columns if c not in drop_cols]
FeatureCols(f) == SelectSeq(f.columns, LAMBDA c : c \notin DropCols)

(***************************************************************************)
(* The observation tables.                                                 *)
(***************************************************************************)
ObsColumns == <<"timestamp_utc", "point_id", "congestion_index">>

\* The congestion_index measured at point p on tick t, in units of 1/256.
\* Every observation carries its own power of two, so a cell, a sum or a mean
\* of the output names exactly the observations it was computed from.
Reading(p, t) == Num(2 ^ ((p - 1) * Cardinality(Ticks) + t))

ObsRow(p, t, v) ==
    [c \in {"timestamp_utc", "point_id", "congestion_index"} |->
        IF c = "timestamp_utc" THEN t * TickMinutes
        ELSE IF c = "point_id" THEN p
        ELSE v]

HasKey(f, p, t) ==
    \E i \in 1..NRows(f) :
        f.rows[i]["point_id"] = p /\ f.rows[i]["timestamp_utc"] = t * TickMinutes

\* The columns a collector tick writes for a point (collector.py), the ones
\* the pipeline reads: timestamp_utc, point_id, latitude, longitude and
\* congestion_index (NaN in the row of a failed fetch).
CollectedColumns == <<"timestamp_utc", "point_id", "latitude", "longitude", "congestion_index">>

CollectedRow(p, ts, v) ==
    [c \in {"timestamp_utc", "point_id", "latitude", "longitude", "congestion_index"} |->
        IF c = "timestamp_utc" THEN ts
        ELSE IF c = "point_id" THEN p
        ELSE IF c = "latitude" THEN Num(51)
        ELSE IF c = "longitude" THEN Num(p)
        ELSE v]

\* congestion_index of a tick row, in units of 1/256: 0.25, 0.75 or missing.
CollectedValues == {Num(64), Num(192), NaN}

\* The collector's interval_seconds / 60 of a run.
TickSpacings == {10, 15, 30}

\* test_fraction, in tenths.
TestFractions == {1, 2, 5, 8, 9}

(***************************************************************************)
(* State.                                                                  *)
(***************************************************************************)
NoTraining ==
    /\ feature_cols = <<>>
    /\ train_df = EmptySplit
    /\ test_df = EmptySplit
    /\ hidx = 0
    /\ fits = <<>>
    /\ scores = <<>>
    /\ results = <<>>
    /\ files = <<>>
    /\ loaded = [path |-> "", feature_cols |-> <<>>, horizon_min |-> 0]
    /\ X = EmptyFrame
    /\ latest = [point_id |-> 0, columns |-> <<>>, rows |-> <<>>]
    /\ err = "none"

\* No collector has run: no points file, no raw file.
NoData ==
    /\ points_file = [exists |-> FALSE, points |-> <<>>]
    /\ dft_queries = 0
    /\ ensure_call = [calls |-> 0, bbox |-> DefaultBBox, target_n |-> 0]
    /\ raw_tomtom = <<>>
    /\ raw_tfl = <<>>

train_vars == <<feature_cols, train_df, test_df, hidx, fits, scores, results, files, loaded, X, latest, err>>

Init ==
    /\ df = [columns |-> ObsColumns, rows |-> <<>>]
    /\ tick_minutes = TickMinutes
    /\ num_points = Cardinality(Points)
    /\ interval_minutes = 0
    /\ drop_na = TRUE
    /\ fdf = EmptyFrame
    /\ pc = "observe"
    /\ NoTraining
    /\ NoData

\* One more observation row reaches the table, in any arrival order.
Observe(p, t, v) ==
    /\ pc = "observe"
    /\ NRows(df) < MaxRows
    /\ ~HasKey(df, p, t)
    /\ df' = [df EXCEPT !.rows = Append(df.rows, ObsRow(p, t, v))]
    /\ UNCHANGED <<tick_minutes, num_points, interval_minutes, drop_na, fdf, pc, train_vars, data_vars>>

\* make_feature_frame(df, cfg=FeatureConfig(drop_na=dn), interval_minutes=iv)
MakeFeatureFrame(iv, dn) ==
    /\ pc = "observe"
    /\ interval_minutes' = iv
    /\ drop_na' = dn
    /\ fdf' = make_feature_frame(df, FeatureCfg, iv, dn)
    /\ pc' = "features"
    /\ UNCHANGED <<df, tick_minutes, num_points, train_vars, data_vars>>

Next ==
    \/ \E p \in Points, t \in Ticks : Observe(p, t, Reading(p, t))
    \/ \E iv \in Intervals, dn \in BOOLEAN : MakeFeatureFrame(iv, dn)

Spec == Init /\ [][Next]_vars

(***************************************************************************)
(* The training run: collector ticks fill the observation table, then      *)
(* scripts/train_models.py derives the interval, builds the feature frame, *)
(* splits, trains one model per horizon, and predict_for_point reads an    *)
(* artifact back.                                                          *)
(***************************************************************************)
InitTrain ==
    /\ df = [columns |-> CollectedColumns, rows |-> <<>>]
    /\ tick_minutes \in TickSpacings
    /\ num_points \in 1..Cardinality(Points)
    /\ interval_minutes = 0
    /\ drop_na = TRUE
    /\ fdf = EmptyFrame
    /\ pc = "observe"
    /\ NoTraining
    /\ NoData

TicksDone == NRows(df) \div num_points

\* A collector tick: one row for every monitored point, all with the tick's
\* timestamp; the observation table is kept sorted by (point_id, timestamp_utc)
\* as build_dataset writes it.
CollectTick(vals) ==
    /\ pc = "observe"
    /\ (TicksDone + 1) * num_points <= MaxCollected
    /\ df' = SortGroupTime([df EXCEPT !.rows = df.rows \o
                [p \in 1..num_points |-> CollectedRow(p, TicksDone * tick_minutes, vals[p])]])
    /\ UNCHANGED <<tick_minutes, num_points, interval_minutes, drop_na, fdf, pc, train_vars, data_vars>>

\* main(), lines 19-27: the interval, then the feature frame and feature_cols.
BuildFeatures ==
    /\ pc = "observe"
    /\ interval_minutes' = DeriveInterval(df)
    /\ fdf' = make_feature_frame(df, FeatureCfg, DeriveInterval(df), TRUE)
    /\ feature_cols' = FeatureCols(fdf')
    /\ pc' = "features"
    /\ UNCHANGED <<df, tick_minutes, num_points, drop_na, train_df, test_df, hidx,
                   fits, scores, results, files, loaded, X, latest, err, data_vars>>

\* make_feature_frame called with the collector's own tick spacing as the
\* interval, and feature_cols taken as the script takes them.
CallerFeatures ==
    /\ pc = "observe"
    /\ interval_minutes' = tick_minutes
    /\ fdf' = make_feature_frame(df, FeatureCfg, tick_minutes, TRUE)
    /\ feature_cols' = FeatureCols(fdf')
    /\ pc' = "caller_features"
    /\ UNCHANGED <<df, tick_minutes, num_points, drop_na, train_df, test_df, hidx,
                   fits, scores, results, files, loaded, X, latest, err, data_vars>>

\* train_models, line 73: the split.
TimeSplit(tf, p) ==
    /\ pc \in {"features", "caller_features"}
    /\ train_df' = time_split(fdf, tf, p)[1]
    /\ test_df' = time_split(fdf, tf, p)[2]
    /\ hidx' = 1
    /\ pc' = "train"
    /\ UNCHANGED <<df, tick_minutes, num_points, interval_minutes, drop_na, fdf,
                   feature_cols, fits, scores, results, files, loaded, X, latest, err, data_vars>>

\* train_models, lines 78-101: one horizon.  An exception leaves the loop and
\* train_models, and the script with it.
TrainHorizon ==
    /\ pc = "train"
    /\ hidx <= Len(TrainCfg.horizons_min)
    /\ LET h == TrainCfg.horizons_min[hidx]
           out == train_horizon(train_df, test_df, feature_cols, h)
       IN  IF out.raises
           THEN /\ pc' = "failed"
                /\ err' = "ValueError"
                /\ UNCHANGED <<hidx, fits, scores, results, files>>
           ELSE /\ fits' = Append(fits, [horizon_min |-> h] @@ out.fit)
                /\ scores' = Append(scores, [horizon_min |-> h] @@ out.score)
                /\ files' = Append(SelectSeq(files, LAMBDA e : e.path # ModelPath(h)),
                                   [path |-> ModelPath(h)] @@ out.artifact)
                /\ results' = Append(results, [horizon |-> h] @@ out.result)
                /\ hidx' = hidx + 1
                /\ pc' = IF hidx = Len(TrainCfg.horizons_min) THEN "trained" ELSE "train"
                /\ err' = err
    /\ UNCHANGED <<df, tick_minutes, num_points, interval_minutes, drop_na, fdf,
                   feature_cols, train_df, test_df, loaded, X, latest, data_vars>>

\* predict_for_point(model_path, observations_path, point_id), up to the
\* feature row X handed to the estimator.
PredictForPoint(i, p) ==
    /\ pc \in {"trained", "failed"}
    /\ i \in 1..Len(files)
    /\ loaded' = [path |-> files[i].path] @@ load_model(files[i])
    /\ IF RowsOfPoint(df, p) = <<>>
       THEN /\ err' = "ValueError"
            /\ pc' = "infer_failed"
            /\ X' = X
            /\ latest' = [point_id |-> p, columns |-> <<>>, rows |-> <<>>]
       ELSE /\ \E r \in LatestRows(RowsOfPoint(df, p)) :
                  /\ latest' = [point_id |-> p, columns |-> df.columns, rows |-> <<r>>]
                  /\ X' = AssembleFeatures(df.columns, r, files[i].feature_cols)
            /\ pc' = "inferred"
            /\ err' = "none"
    /\ UNCHANGED <<df, tick_minutes, num_points, interval_minutes, drop_na, fdf,
                   feature_cols, train_df, test_df, hidx, fits, scores, results, files, data_vars>>

NextTrain ==
    \/ \E vals \in [1..num_points -> CollectedValues] : CollectTick(vals)
    \/ BuildFeatures
    \/ CallerFeatures
    \/ \E tf \in TestFractions : \E p \in TimeSortedOrders(fdf) : TimeSplit(tf, p)
    \/ TrainHorizon
    \/ \E i \in 1..Len(files), p \in Points : PredictForPoint(i, p)

SpecTrain == InitTrain /\ [][NextTrain]_vars

(***************************************************************************)
(* The data side: collector runs select the points once and write the two  *)
(* raw files of every tick; build_dataset reads data/raw and writes the     *)
(* observation table; latest_features_for_point reads that table.           *)
(***************************************************************************)
\* The frame of one tick's parquet as the collector writes it: one row for
\* every point of the points file, stamped with the tick's timestamp.  In
\* the row of a failed fetch congestion_index is missing; when every fetch
\* of the tick fails the frame has no such column.
TomtomWritten(points, ts, k, fetched) ==
    [columns |-> IF fetched THEN CollectedColumns
                 ELSE <<"timestamp_utc", "point_id", "latitude", "longitude">>,
     rows |-> [i \in 1..Len(points) |->
        [c \in (IF fetched THEN {"congestion_index"} ELSE {})
               \cup {"timestamp_utc", "point_id", "latitude", "longitude"} |->
            IF c = "timestamp_utc" THEN ts
            ELSE IF c = "point_id" THEN points[i].point_id
            ELSE IF c = "latitude" THEN Num(points[i].latitude)
            ELSE IF c = "longitude" THEN Num(points[i].longitude)
            ELSE Reading(points[i].point_id, k)]]]

\* The parquet of tick k as build_dataset finds it: as written, written by
\* a tick whose fetches all failed, with a timestamp that does not parse,
\* without rows (with or without its columns), or unreadable.
TomtomFile(kind, points, k) ==
    [readable |-> kind # "unreadable",
     frame |-> IF kind = "written" THEN TomtomWritten(points, RawTs(k * TickMinutes), k, TRUE)
               ELSE IF kind = "errors"
                    THEN TomtomWritten(points, RawTs(k * TickMinutes), k, FALSE)
               ELSE IF kind = "garbled" THEN TomtomWritten(points, Garbled, k, TRUE)
               ELSE IF kind = "empty" THEN [columns |-> CollectedColumns, rows |-> <<>>]
               ELSE EmptyFrame]

\* The json of tick k as build_dataset finds it: as written, with a
\* timestamp that does not parse, or unreadable.
TflFile(kind, k) ==
    [readable |-> kind # "unreadable",
     obj |-> [timestamp_utc |-> IF kind = "garbled" THEN Garbled ELSE RawTs(k * TickMinutes),
              disruptions_count |-> Num(k + 1),
              severe_disruptions_count |-> Num(k),
              roads_seen |-> Num(8)]]

\* The states of the two files of a tick: <<parquet, json>>.
RawKinds ==
    ({"written", "garbled"} \X {"written", "garbled", "unreadable"})
        \cup ({"errors", "empty", "blank", "unreadable"} \X {"written"})

\* The feature lists handed to latest_features_for_point.
FeatureLists ==
    {<<"hour", "day_of_week", "is_weekend", "congestion_index", "congestion_index_lag_1">>,
     <<"congestion_index", "tfl_disruptions_count", "congestion_index_roll_mean_3">>}

InitBuild ==
    /\ df = EmptyFrame
    /\ tick_minutes = TickMinutes
    /\ num_points = 0
    /\ interval_minutes = 0
    /\ drop_na = TRUE
    /\ fdf = EmptyFrame
    /\ pc = "collect"
    /\ NoTraining
    /\ NoData

build_frame == <<tick_minutes, num_points, interval_minutes, drop_na, fdf, feature_cols,
                 train_df, test_df, hidx, fits, scores, results, files, loaded>>

\* Collector.run, line 139: _ensure_points at the start of a run.
EnsurePoints(bbox, target_n) ==
    /\ pc = "collect"
    /\ ensure_call.calls < MaxRuns
    /\ \E o \in ensure_points_csv(points_file, dft_queries, bbox, target_n) :
          /\ points_file' = o.file
          /\ dft_queries' = o.queries
          /\ err' = IF o.raises THEN "RuntimeError" ELSE "none"
    /\ ensure_call' = [calls |-> ensure_call.calls + 1, bbox |-> bbox, target_n |-> target_n]
    /\ UNCHANGED <<df, X, latest, raw_tomtom, raw_tfl, pc, build_frame>>

\* Collector.run, lines 148-163: one tick of a run whose points were read
\* from the points file, and the state its two files are found in.
RawTick(kind) ==
    /\ pc = "collect"
    /\ points_file.exists
    /\ Len(raw_tomtom) < MaxTicks
    /\ raw_tomtom' = Append(raw_tomtom,
                            TomtomFile(kind[1], points_file.points, Len(raw_tomtom)))
    /\ raw_tfl' = Append(raw_tfl, TflFile(kind[2], Len(raw_tfl)))
    /\ UNCHANGED <<df, X, latest, err, points_file, dft_queries, ensure_call, pc, build_frame>>

\* scripts/build_dataset.py: build_dataset over data/raw.
BuildDataset ==
    /\ pc = "collect"
    /\ LET out == build_dataset(raw_tomtom, raw_tfl)
       IN  /\ df' = IF out.raises THEN df ELSE out.table
           /\ err' = out.err
           /\ pc' = IF out.raises THEN "build_failed" ELSE "built"
    /\ UNCHANGED <<X, latest, data_vars, build_frame>>

\* latest_features_for_point(observations, point_id, feature_cols) on the
\* built table.
LatestFeaturesForPoint(p, cols) ==
    /\ pc = "built"
    /\ IF RowsOfPoint(df, p) = <<>>
       THEN /\ err' = "ValueError"
            /\ pc' = "infer_failed"
            /\ X' = X
            /\ latest' = [point_id |-> p, columns |-> <<>>, rows |-> <<>>]
       ELSE /\ \E r \in LatestRows(RowsOfPoint(df, p)) :
                  /\ latest' = [point_id |-> p, columns |-> df.columns, rows |-> <<r>>]
                  /\ X' = AssembleFeatures(df.columns, r, cols)
            /\ pc' = "inferred"
            /\ err' = "none"
    /\ UNCHANGED <<df, data_vars, build_frame>>

NextBuild ==
    \/ \E bbox \in BBoxes, n \in TargetNs : EnsurePoints(bbox, n)
    \/ \E kind \in RawKinds : RawTick(kind)
    \/ BuildDataset
    \/ \E p \in Points, cols \in FeatureLists : LatestFeaturesForPoint(p, cols)

SpecBuild == InitBuild /\ [][NextBuild]_vars

(***************************************************************************)
(* What the claims speak of: the time-ordered history of an entity in the  *)
(* input table, stated on the table itself and not on the code's sort.     *)
(***************************************************************************)
EntityRows(f, e) == {i \in 1..NRows(f) : f.rows[i]["point_id"] = e}

\* The 0-based index of the row of (e, ts) in e's time-ordered history.
HistIndex(f, e, ts) ==
    Cardinality({i \in EntityRows(f, e) : f.rows[i]["timestamp_utc"] < ts})

HistLen(f, e) == Cardinality(EntityRows(f, e))

\* The metric at 0-based index n of e's time-ordered history.
HistMetric(f, e, n) ==
    f.rows[CHOOSE i \in EntityRows(f, e) :
               HistIndex(f, e, f.rows[i]["timestamp_utc"]) = n]["congestion_index"]

\* The mean of the metric over the indices lo..hi of e's history (lo <= hi).
RECURSIVE HistSum(_, _, _, _)
HistSum(f, e, lo, hi) ==
    IF lo > hi THEN Num(0)
    ELSE RatAdd(HistMetric(f, e, lo), HistSum(f, e, lo + 1, hi))

HistMean(f, e, lo, hi) == RatDivInt(HistSum(f, e, lo, hi), hi - lo + 1)

RowEntity(r) == r["point_id"]

RowIndex(f, r) == HistIndex(f, r["point_id"], r["timestamp_utc"])

\* Every row of the input table is a row of the output, and conversely.
SameKeys(f, g) ==
    /\ NRows(f) = NRows(g)
    /\ \A i \in 1..NRows(f) : \E j \in 1..NRows(g) :
          /\ g.rows[j]["point_id"] = f.rows[i]["point_id"]
          /\ g.rows[j]["timestamp_utc"] = f.rows[i]["timestamp_utc"]
          /\ g.rows[j]["congestion_index"] = f.rows[i]["congestion_index"]

ArrivalSorted(f) ==
    \A i \in 1..NRows(f) - 1 : LexLess(GroupTimeKey(f.rows[i]), GroupTimeKey(f.rows[i + 1]))

FeatureColumns(f) ==
    {f.columns[j] : j \in 1..Len(f.columns)}
        \ {TargetName(FeatureCfg.horizons_min[j]) : j \in 1..Len(FeatureCfg.horizons_min)}

\* The table without its row x, and with the metric of its row x set to v.
RemoveRow(f, x) ==
    [f EXCEPT !.rows = [i \in 1..NRows(f) - 1 |-> IF i < x THEN f.rows[i] ELSE f.rows[i + 1]]]

AlterRow(f, x, v) == [f EXCEPT !.rows[x]["congestion_index"] = v]

\* The feature cells of the row of key (e, ts) agree in the frames g and g2.
SameFeatures(g, g2, e, ts) ==
    \A i \in 1..NRows(g), j \in 1..NRows(g2) :
        (/\ g.rows[i]["point_id"] = e /\ g.rows[i]["timestamp_utc"] = ts
         /\ g2.rows[j]["point_id"] = e /\ g2.rows[j]["timestamp_utc"] = ts)
        => \A c \in FeatureColumns(g) \ {"congestion_index"} : g.rows[i][c] = g2.rows[j][c]

(***************************************************************************)
(* C1 -- leakage check on make_feature_frame: no feature cell (calendar,   *)
(* lag, rolling mean, rolling std) of an output row changes when an input  *)
(* row with a later timestamp, of any entity, is removed or altered.       *)
(***************************************************************************)
C1_NoFutureDependence ==
    pc = "features" =>
        \A i \in 1..NRows(fdf), x \in 1..NRows(df) :
            df.rows[x]["timestamp_utc"] > fdf.rows[i]["timestamp_utc"] =>
                /\ SameFeatures(fdf,
                       make_feature_frame(RemoveRow(df, x), FeatureCfg, interval_minutes, FALSE),
                       fdf.rows[i]["point_id"], fdf.rows[i]["timestamp_utc"])
                /\ SameFeatures(fdf,
                       make_feature_frame(AlterRow(df, x, Num(0)), FeatureCfg, interval_minutes, FALSE),
                       fdf.rows[i]["point_id"], fdf.rows[i]["timestamp_utc"])

(***************************************************************************)
(* C2 -- add_rolling_features: roll_mean_w at index i of an entity's       *)
(* history is the mean of that entity's metric over the indices            *)
(* max(0, i-w) .. i-1, and is undefined at i = 0.                          *)
(***************************************************************************)
C2_RollingMeanWithinEntity ==
    pc = "features" =>
        \A i \in 1..NRows(fdf), j \in 1..Len(FeatureCfg.rolling_windows) :
            LET r == fdf.rows[i]
                w == FeatureCfg.rolling_windows[j]
                n == RowIndex(df, r)
            IN  r[RollMeanName("congestion_index", w)] =
                    IF n = 0 THEN NaN
                    ELSE HistMean(df, RowEntity(r), Max(0, n - w), n - 1)

(***************************************************************************)
(* C3 -- add_lag_features: lag_k at index i of an entity's time-ordered    *)
(* history is that entity's metric at index i-k when i >= k and is         *)
(* undefined when i < k, whatever the arrival order of the input rows.     *)
(***************************************************************************)
C3_LagWithinEntity ==
    pc = "features" =>
        /\ ~drop_na => SameKeys(df, fdf)
        /\ \A i \in 1..NRows(fdf), j \in 1..Len(FeatureCfg.lags) :
              LET r == fdf.rows[i]
                  k == FeatureCfg.lags[j]
                  n == RowIndex(df, r)
              IN  r[LagName("congestion_index", k)] =
                      IF n >= k THEN HistMetric(df, RowEntity(r), n - k) ELSE NaN

\* An unsorted two-entity table whose output holds a defined lag_2 and, for
\* another entity, an undefined lag_1.
C3_Witness ==
    /\ pc = "features"
    /\ ~ArrivalSorted(df)
    /\ \E i \in 1..NRows(fdf) : ~IsNaN(fdf.rows[i][LagName("congestion_index", 2)])
    /\ \E i, j \in 1..NRows(fdf) :
          /\ RowEntity(fdf.rows[i]) # RowEntity(fdf.rows[j])
          /\ IsNaN(fdf.rows[j][LagName("congestion_index", 1)])

(***************************************************************************)
(* C4 -- add_targets: with s = shift_rows(h), y_h at index i of an         *)
(* entity's history of length n is that entity's metric at index i+s when  *)
(* i+s < n and is undefined for the last s rows of the entity.             *)
(***************************************************************************)
C4_TargetWithinEntity ==
    pc = "features" =>
        /\ ~drop_na => SameKeys(df, fdf)
        /\ \A i \in 1..NRows(fdf), j \in 1..Len(FeatureCfg.horizons_min) :
              LET r == fdf.rows[i]
                  h == FeatureCfg.horizons_min[j]
                  s == ShiftRows(h, interval_minutes)
                  n == RowIndex(df, r)
              IN  r[TargetName(h)] =
                      IF n + s < HistLen(df, RowEntity(r))
                      THEN HistMetric(df, RowEntity(r), n + s)
                      ELSE NaN

\* Interval 10 and horizon 30 (s = 3): a row with a defined y_30 next to rows
\* of the same entity whose y_30 is undefined.
C4_Witness ==
    /\ pc = "features"
    /\ interval_minutes = 10
    /\ ~drop_na
    /\ ShiftRows(30, interval_minutes) = 3
    /\ \E i, j \in 1..NRows(fdf) :
          /\ ~IsNaN(fdf.rows[i][TargetName(30)])
          /\ IsNaN(fdf.rows[j][TargetName(30)])

(***************************************************************************)
(* C5 -- the row shift of add_targets is round(h / interval_minutes) with  *)
(* a minimum of 1: y_h of a row is the metric max(1, round(h / interval))  *)
(* rows later in the entity's history, never the row's own metric.         *)
(***************************************************************************)
C5_ShiftAtLeastOne ==
    pc = "features" =>
        \A i \in 1..NRows(fdf), j \in 1..Len(FeatureCfg.horizons_min) :
            LET r == fdf.rows[i]
                h == FeatureCfg.horizons_min[j]
                s == Max(1, RoundHalfEven(h, interval_minutes))
                n == RowIndex(df, r)
            IN  r[TargetName(h)] =
                    IF n + s < HistLen(df, RowEntity(r))
                    THEN HistMetric(df, RowEntity(r), n + s)
                    ELSE NaN

(***************************************************************************)
(* What the claims on the training run speak of.                           *)
(***************************************************************************)
\* time_split has returned its two partitions.
SplitReturned == pc \in {"train", "trained", "failed", "inferred", "infer_failed"}

Count(rows, r) == Cardinality({i \in 1..Len(rows) : rows[i] = r})

\* s and t hold the same rows, each as often.
SameRows(s, t) ==
    /\ Len(s) = Len(t)
    /\ \A i \in 1..Len(s) : Count(s, s[i]) = Count(t, s[i])

TimeAscending(rows) ==
    \A i \in 1..Len(rows) - 1 : rows[i]["timestamp_utc"] <= rows[i + 1]["timestamp_utc"]

Labels(f) == {f.index[i] : i \in 1..Len(f.index)}

(***************************************************************************)
(* C6 -- time_split: for a table of n >= 2 rows and a test_fraction in     *)
(* (0,1) the cut lies in [1, n-1], both partitions are non-empty, train    *)
(* followed by test is the table sorted by timestamp ascending (no row     *)
(* lost, duplicated or reordered), and every train timestamp is <= every   *)
(* test timestamp.                                                         *)
(***************************************************************************)
C6_SplitInvariant ==
    (SplitReturned /\ NRows(fdf) >= 2) =>
        /\ NRows(train_df) >= 1
        /\ NRows(train_df) <= NRows(fdf) - 1
        /\ NRows(test_df) >= 1
        /\ SameRows(train_df.rows \o test_df.rows, fdf.rows)
        /\ TimeAscending(train_df.rows \o test_df.rows)
        /\ train_df.index \o test_df.index = [i \in 1..NRows(fdf) |-> i - 1]
        /\ \A i \in 1..NRows(train_df), j \in 1..NRows(test_df) :
              train_df.rows[i]["timestamp_utc"] <= test_df.rows[j]["timestamp_utc"]

\* A split of three rows or more into two train rows or more and a test row.
C6_Witness ==
    /\ SplitReturned
    /\ NRows(fdf) >= 3
    /\ NRows(train_df) >= 2
    /\ NRows(test_df) >= 1

(***************************************************************************)
(* C7 -- time_split fails with InsufficientData on a table of fewer than   *)
(* 2 rows: it never returns a pair of partitions of which one is empty.    *)
(***************************************************************************)
C7_InsufficientData ==
    SplitReturned => (NRows(fdf) >= 2 /\ NRows(train_df) >= 1 /\ NRows(test_df) >= 1)

(***************************************************************************)
(* C8 -- the interval the training script derives is the tick spacing: d   *)
(* for a table of E entities observed at every one of two or more ticks d  *)
(* minutes apart, for every E, and the default 10 when fewer than two      *)
(* timestamps exist; so horizon 30 with d = 10 shifts by 3 rows.           *)
(***************************************************************************)
C8_IntervalIsTickSpacing ==
    pc = "features" =>
        /\ TicksDone >= 2 => interval_minutes = tick_minutes
        /\ NRows(df) < 2 => interval_minutes = DefaultInterval
        /\ (TicksDone >= 2 /\ tick_minutes = 10) => ShiftRows(30, interval_minutes) = 3

(***************************************************************************)
(* C9 -- train_models fits each horizon's regressor on the rows of the     *)
(* train partition only (feature columns and that horizon's target) and    *)
(* scores on the rows of the test partition only; no test row is passed to *)
(* fit, and n_train + n_test is the number of rows of the input table.     *)
(***************************************************************************)
C9_FitOnTrainOnly ==
    /\ Len(fits) = Len(results) /\ Len(scores) = Len(results)
    /\ \A k \in 1..Len(results) :
          LET h == results[k].horizon
          IN  /\ fits[k].horizon_min = h /\ scores[k].horizon_min = h
              /\ fits[k].index = train_df.index
              /\ Labels(fits[k]) \cap Labels(test_df) = {}
              /\ fits[k].X = SelectColumns(train_df, feature_cols)
              /\ fits[k].y = Column(train_df, TargetName(h))
              /\ scores[k].index = test_df.index
              /\ Labels(scores[k]) \cap Labels(train_df) = {}
              /\ scores[k].X = SelectColumns(test_df, feature_cols)
              /\ scores[k].y = Column(test_df, TargetName(h))
              /\ results[k].baseline =
                     evaluate(Column(test_df, TargetName(h)), Column(test_df, "congestion_index"))
              /\ results[k].n_train + results[k].n_test = NRows(fdf)

\* Both horizons trained on two train rows or more and scored on a test row.
C9_Witness ==
    /\ pc = "trained"
    /\ Len(fits) = 2
    /\ NRows(train_df) >= 2
    /\ NRows(test_df) >= 1

(***************************************************************************)
(* C10 -- feature-list round trip: for the artifact train_models wrote for *)
(* horizon h with feature list F, read back by load_model, the frame of    *)
(* latest_features_for_point has exactly the columns F in the same order,  *)
(* also when columns of F are absent from the observation table, and the   *)
(* loaded horizon is h.                                                    *)
(***************************************************************************)
C10_FeatureListRoundTrip ==
    pc = "inferred" =>
        /\ \E k \in 1..Len(results) :
              /\ results[k].model_path = loaded.path
              /\ loaded.horizon_min = results[k].horizon
        /\ loaded.feature_cols = feature_cols
        /\ X.columns = feature_cols
        /\ NRows(X) = 1
        /\ DOMAIN X.rows[1] = {feature_cols[j] : j \in 1..Len(feature_cols)}

\* The artifact of horizon 30 read back, with a lag column of F that the
\* observation table does not have.
C10_Witness ==
    /\ pc = "inferred"
    /\ loaded.horizon_min = 30
    /\ \E j \in 1..Len(feature_cols) :
          /\ feature_cols[j] = LagName("congestion_index", 1)
          /\ ~HasColumn(df, feature_cols[j])
    /\ \E j \in 1..Len(feature_cols) : HasColumn(df, feature_cols[j])

(***************************************************************************)
(* What the claims on the data side speak of.                              *)
(***************************************************************************)
\* The rows of the table f that belong to the entity p.
RowsOf(f, p) == {i \in 1..NRows(f) : f.rows[i]["point_id"] = p}

Parsable(r) == ~IsNaT(r["timestamp_utc"])

(***************************************************************************)
(* C11 -- latest_features_for_point builds its feature row from the row    *)
(* with the greatest timestamp among the rows of the requested entity:     *)
(* never a row of another entity, never an older row, never a row whose    *)
(* timestamp did not parse when the entity has one that did; and it fails  *)
(* with the not-found error, returning nothing, exactly when the entity    *)
(* has no row.                                                             *)
(***************************************************************************)
C11_LatestRowOfEntity ==
    pc \in {"inferred", "infer_failed"} =>
        LET p == latest.point_id
        IN  IF RowsOf(df, p) = {}
            THEN pc = "infer_failed" /\ err = "ValueError" /\ NRows(latest) = 0 /\ X = EmptyFrame
            ELSE /\ pc = "inferred"
                 /\ NRows(latest) = 1
                 /\ NRows(X) = 1
                 /\ LET r == latest.rows[1]
                    IN  /\ r["point_id"] = p
                        /\ \E i \in RowsOf(df, p) : df.rows[i] = r
                        /\ HasColumn(df, "congestion_index") =>
                              X.rows[1]["congestion_index"] = r["congestion_index"]
                        /\ \A i \in RowsOf(df, p) :
                              Parsable(df.rows[i]) =>
                                  /\ Parsable(r)
                                  /\ df.rows[i]["timestamp_utc"] <= r["timestamp_utc"]

(***************************************************************************)
(* C12 -- fallback fill: every column of the artifact's feature list that  *)
(* the selected single-row frame does not have (congestion_index_lag_1,    *)
(* the rolling columns) is given that row's own congestion_index, and the  *)
(* call does not fail for it.                                              *)
(***************************************************************************)
TimeFeatureNames == {"hour", "day_of_week", "is_weekend"}

\* The listed columns the single-row frame of latest does not have.
AbsentListed(cols) ==
    {cols[j] : j \in 1..Len(cols)}
        \ ({latest.columns[j] : j \in 1..Len(latest.columns)} \cup TimeFeatureNames)

C12_FallbackFill ==
    (pc \in {"inferred", "infer_failed"} /\ RowsOf(df, latest.point_id) # {}) =>
        /\ pc = "inferred"
        /\ err = "none"
        /\ NRows(X) = 1
        /\ \A c \in AbsentListed(loaded.feature_cols) :
              X.rows[1][c] = latest.rows[1]["congestion_index"]

\* A lag column and a rolling column of the list are absent from the table
\* and the selected row, one of several of its entity, has a reading.
C12_Witness ==
    /\ pc = "inferred"
    /\ Cardinality(RowsOf(df, latest.point_id)) >= 2
    /\ {LagName("congestion_index", 1), RollMeanName("congestion_index", 3)}
           \subseteq AbsentListed(loaded.feature_cols)
    /\ ~IsNaN(latest.rows[1]["congestion_index"])
    /\ X.rows[1][LagName("congestion_index", 1)] = latest.rows[1]["congestion_index"]

(***************************************************************************)
(* C13 -- build_dataset: the output has exactly one row for every row of   *)
(* the numeric source (none dropped, none duplicated), each extended with  *)
(* the counters of the contextual record of the same timestamp, the same   *)
(* for every entity of that timestamp; the contextual columns are present  *)
(* and empty where no contextual record has the timestamp.                 *)
(***************************************************************************)
\* The rows of the numeric source: <<file, row>> of the readable parquets.
SourceRows ==
    {x \in (1..Len(raw_tomtom)) \X (1..Cardinality(Points)) :
        raw_tomtom[x[1]].readable /\ x[2] <= NRows(raw_tomtom[x[1]].frame)}

SourceRow(x) == raw_tomtom[x[1]].frame.rows[x[2]]

\* The contextual records whose timestamp is the minute m.
ContextAt(m) == {j \in 1..Len(raw_tfl) :
                    raw_tfl[j].readable /\ raw_tfl[j].obj.timestamp_utc = RawTs(m)}

\* The contextual cells the claim gives a row of minute m.
ContextCells(m) ==
    IF ContextAt(m) = {} THEN [c \in {TflCounters[j] : j \in 1..Len(TflCounters)} |-> NaN]
    ELSE LET o == raw_tfl[CHOOSE j \in ContextAt(m) : TRUE].obj
         IN  [c \in {TflCounters[j] : j \in 1..Len(TflCounters)} |->
                 IF c = "tfl_disruptions_count" THEN o.disruptions_count
                 ELSE IF c = "tfl_severe_disruptions_count" THEN o.severe_disruptions_count
                 ELSE o.roads_seen]

C13_OneRowPerSourceRow ==
    pc \in {"built", "inferred", "infer_failed"} =>
        /\ \A j \in 1..Len(TflCounters) : HasColumn(df, TflCounters[j])
        /\ NRows(df) = Cardinality(SourceRows)
        /\ \A x \in SourceRows :
              SourceRow(x)["timestamp_utc"].text_ok =>
                  LET m == SourceRow(x)["timestamp_utc"].minute
                      outs == {k \in RowsOf(df, SourceRow(x)["point_id"]) :
                                  df.rows[k]["timestamp_utc"] = m}
                  IN  /\ Cardinality(outs) = 1
                      /\ \A k \in outs, c \in DOMAIN ContextCells(m) :
                            df.rows[k][c] = ContextCells(m)[c]

(***************************************************************************)
(* C14 -- rows whose timestamp does not parse are dropped by the build of  *)
(* the observation table and do not make it fail: no row of the built      *)
(* table is without a timestamp.                                           *)
(***************************************************************************)
BuildEnded == pc \in {"built", "build_failed", "inferred", "infer_failed"}

C14_NoRowWithoutTimestamp ==
    BuildEnded =>
        /\ \A i \in 1..NRows(df) : Parsable(df.rows[i])
        /\ (\E x \in SourceRows : ~SourceRow(x)["timestamp_utc"].text_ok) => pc # "build_failed"

(***************************************************************************)
(* C15 -- build_dataset fails, and writes no output table, whenever the    *)
(* numeric source gives no row (no file, every file unreadable, readable   *)
(* files without rows); when a file with rows is read, the unreadable      *)
(* files are skipped and the build succeeds with the rows of the readable  *)
(* files.                                                                  *)
(***************************************************************************)
\* No observation table has been written.
NoOutput == df = EmptyFrame

C15_DataUnavailable ==
    BuildEnded =>
        IF SourceRows = {}
        THEN pc = "build_failed" /\ err # "none" /\ NoOutput
        ELSE /\ pc # "build_failed"
             /\ ~NoOutput
             /\ \A x \in SourceRows : \E k \in RowsOf(df, SourceRow(x)["point_id"]) :
                   \A c \in DOMAIN SourceRow(x) \ {"timestamp_utc"} :
                       df.rows[k][c] = SourceRow(x)[c]

(***************************************************************************)
(* C16 -- train_models: a failure while training or scoring one horizon    *)
(* does not abort the others.  The loop visits every configured horizon,   *)
(* train_models returns its metrics, and a horizon has its artifact and    *)
(* its entry in them exactly when its own pass does not fail.              *)
(***************************************************************************)
\* train_models has left its loop over the horizons.
LoopEnded == pc \in {"trained", "failed"}

HorizonFails(h) == train_horizon(train_df, test_df, feature_cols, h).raises

C16_HorizonFailureIsolated ==
    LoopEnded =>
        /\ hidx > Len(TrainCfg.horizons_min)
        /\ pc = "trained" /\ err = "none"
        /\ \A j \in 1..Len(TrainCfg.horizons_min) :
              LET h == TrainCfg.horizons_min[j]
              IN  /\ ~HorizonFails(h) <=>
                        \E k \in 1..Len(results) : results[k].horizon = h
                  /\ ~HorizonFails(h) <=>
                        \E k \in 1..Len(files) : files[k].path = ModelPath(h)

(***************************************************************************)
(* C17 -- complete rows only (drop_na = True, the default): the frame of   *)
(* make_feature_frame holds exactly the rows whose every target y_h is     *)
(* defined; no row with an undefined target stays, no row with all its     *)
(* targets defined goes, and rows with undefined lag or rolling features   *)
(* are kept.                                                               *)
(***************************************************************************)
FrameBuilt == pc \notin {"observe", "collect", "built", "build_failed"}

\* y_h of the row r of the table f is defined: the entity has an observation
\* s rows later and its metric is not missing.
TargetDefined(f, r, h) ==
    LET s == ShiftRows(h, interval_minutes)
        n == RowIndex(f, r)
    IN  /\ n + s < HistLen(f, RowEntity(r))
        /\ ~IsNaN(HistMetric(f, RowEntity(r), n + s))

Complete(f, r) ==
    \A j \in 1..Len(FeatureCfg.horizons_min) : TargetDefined(f, r, FeatureCfg.horizons_min[j])

\* The rows of the frame g that carry the key of the row r.
KeyRows(g, r) ==
    {k \in 1..NRows(g) : /\ g.rows[k]["point_id"] = r["point_id"]
                         /\ g.rows[k]["timestamp_utc"] = r["timestamp_utc"]}

C17_CompleteRowsOnly ==
    (FrameBuilt /\ drop_na) =>
        /\ \A i \in 1..NRows(df) :
              Cardinality(KeyRows(fdf, df.rows[i])) = IF Complete(df, df.rows[i]) THEN 1 ELSE 0
        /\ \A k \in 1..NRows(fdf) :
              /\ KeyRows(df, fdf.rows[k]) # {}
              /\ \A j \in 1..Len(FeatureCfg.horizons_min) :
                    ~IsNaN(fdf.rows[k][TargetName(FeatureCfg.horizons_min[j])])

\* A kept row whose lag_1 is undefined, next to a row dropped at the end of
\* its entity's history and a row dropped for a missing future reading.
C17_Witness ==
    /\ FrameBuilt /\ drop_na
    /\ \E k \in 1..NRows(fdf) : IsNaN(fdf.rows[k][LagName("congestion_index", 1)])
    /\ \E i \in 1..NRows(df) :
          /\ KeyRows(fdf, df.rows[i]) = {}
          /\ RowIndex(df, df.rows[i]) + ShiftRows(30, interval_minutes)
                 >= HistLen(df, RowEntity(df.rows[i]))
    /\ \E i \in 1..NRows(df) :
          /\ KeyRows(fdf, df.rows[i]) = {}
          /\ RowIndex(df, df.rows[i]) + ShiftRows(30, interval_minutes)
                 < HistLen(df, RowEntity(df.rows[i]))

(***************************************************************************)
(* C18 -- make_feature_frame is a function of the set of observation rows, *)
(* not of their arrival order: two tables that are permutations of each    *)
(* other (unique (entity, timestamp) keys), with the same config and       *)
(* interval, give outputs identical row for row; and the input table is    *)
(* left as it was.  Every arrival order of a set of rows is a table of     *)
(* the specification, and all of them share one arrangement in key order:  *)
(* the output of every table is the output of that arrangement.            *)
(***************************************************************************)
\* The rows of the table in the one order that ascends by (entity,
\* timestamp): the arrangement every permutation of the table shares.
KeyOrder(f) ==
    [f EXCEPT !.rows = [p \in 1..NRows(f) |->
        f.rows[CHOOSE i \in 1..NRows(f) :
            Cardinality({j \in 1..NRows(f) :
                LexLess(<<f.rows[j]["point_id"], f.rows[j]["timestamp_utc"]>>,
                        <<f.rows[i]["point_id"], f.rows[i]["timestamp_utc"]>>)}) = p - 1]]]

OrderIndependent ==
    make_feature_frame(KeyOrder(df), FeatureCfg, interval_minutes, drop_na) = fdf

C18_OrderIndependence ==
    /\ [](pc = "features" => OrderIndependent)
    /\ [][pc' = "features" => df' = df]_vars

\* An output with rows, built from an unsorted table of two entities.
C18_Witness ==
    /\ pc = "features"
    /\ ~ArrivalSorted(df)
    /\ NRows(df) >= 3
    /\ NRows(fdf) >= 1
    /\ \E i, j \in 1..NRows(df) : df.rows[i]["point_id"] # df.rows[j]["point_id"]
    /\ \E i, j \in 1..NRows(df) :
          /\ i < j /\ df.rows[i]["point_id"] = df.rows[j]["point_id"]
          /\ df.rows[i]["timestamp_utc"] > df.rows[j]["timestamp_utc"]

(***************************************************************************)
(* C19: the point set is created once                                      *)
(***************************************************************************)
\* C19: once the points file exists, no step (and so no later
\* ensure_points_csv call, whatever its bbox and target_n) queries the point
\* source or changes the file.
C19_PointsCreatedOnce ==
    [][points_file.exists => /\ points_file' = points_file
                             /\ dft_queries' = dft_queries]_vars

\* A second call, made on an existing file with a target_n other than the
\* number of points the file holds, after a single query of the source.
C19_Witness ==
    /\ ensure_call.calls >= 2
    /\ points_file.exists
    /\ dft_queries = 1
    /\ err = "none"
    /\ ensure_call.target_n # Len(points_file.points)

(***************************************************************************)
(* C20: no look-ahead in the training labels                               *)
(***************************************************************************)
SplitDone == pc \in {"train", "trained", "failed", "inferred", "infer_failed"}

\* The timestamp at 0-based index n of e's time-ordered history.
HistTime(f, e, n) ==
    f.rows[CHOOSE i \in EntityRows(f, e) :
               HistIndex(f, e, f.rows[i]["timestamp_utc"]) = n]["timestamp_utc"]

\* The timestamp of the observation that supplies y_h of the row r: the one
\* ShiftRows(h, interval) rows later in the entity's history.
LabelTime(r, h) ==
    HistTime(df, RowEntity(r), RowIndex(df, r) + ShiftRows(h, interval_minutes))

\* C20: after time_split, the observation supplying the target y_h of a
\* train row is strictly earlier than every row of the test partition.
C20_NoLookAhead ==
    SplitDone =>
        \A i \in 1..NRows(train_df), k \in 1..NRows(test_df),
           j \in 1..Len(FeatureCfg.horizons_min) :
            LabelTime(train_df.rows[i], FeatureCfg.horizons_min[j])
                < test_df.rows[k]["timestamp_utc"]

(***************************************************************************)
(* C21: the inference row is always available and fully defined            *)
(***************************************************************************)
\* C21: when the table has a row of the requested entity,
\* latest_features_for_point returns one row, and every listed column of it
\* holds a defined value.
C21_InferenceRowDefined ==
    (pc \in {"inferred", "infer_failed"} /\ RowsOf(df, latest.point_id) # {}) =>
        /\ pc = "inferred"
        /\ err = "none"
        /\ NRows(X) = 1
        /\ X.columns \in FeatureLists
        /\ \A j \in 1..Len(X.columns) : ~IsNaN(X.rows[1][X.columns[j]])

====
